---- MODULE Spec2Model ----
(***************************************************************************)
(* Authentication and authorization core of chill-labs-backend.            *)
(*                                                                         *)
(* The state is the account directory (the users table), the wall clock,   *)
(* the tokens the service has signed so far and the outcome of the last    *)
(* request.  Every service call and every middleware run is one action.    *)
(*                                                                         *)
(* Strings the client chooses are tuples of one-character strings, so      *)
(* length and format checks are computed and not looked up.  An            *)
(* Option<T> is the empty tuple (None) or a one-element tuple (Some).      *)
(***************************************************************************)
EXTENDS Integers, Sequences, FiniteSets, TLC

VARIABLES users, next_id, now, issued, last, notes, inflight

vars == <<users, next_id, now, issued, last, notes, inflight>>

----------------------------------------------------------------------------
(* Bounds of the model.                                                    *)

\* accounts the directory may hold, the seeded admin included
MaxUsers == 2
\* clock values 0 .. MaxTime; one tick stands for 60 seconds
MaxTime == 3
\* tokens the service signs in one behaviour
MaxTokens == 3
\* ticks that stand for one configured hour
HourTicks == 1

----------------------------------------------------------------------------
(* Option<T>                                                               *)

None == <<>>

Some(x) == <<x>>

is_none(o) == o = <<>>

is_some(o) == o # <<>>

unwrap(o) == o[1]

----------------------------------------------------------------------------
(* Client strings.                                                         *)

\* "a@b": three characters, a well-formed email address
StrAtB == <<"a", "@", "b">>
\* "bob": three characters, not an email address
StrBob == <<"b", "o", "b">>
\* the empty string
StrEmpty == <<>>
\* settings.admin.email and the seeded username
StrAdminEmail == <<"r", "@", "t">>
StrAdmin == <<"a", "d", "m", "i", "n">>

\* eight characters: the shortest password register accepts
PwGood == <<"S", "e", "c", "r", "3", "t", "!", "p">>
PwShort == <<"p", "w">>
\* settings.admin.password
PwAdmin == <<"a", "d", "m", "1", "n", "P", "w", "!">>

\* validator's email rule: a non-empty local part, one '@', a non-empty domain
IsEmail(s) ==
    /\ Cardinality({i \in 1..Len(s) : s[i] = "@"}) = 1
    /\ s[1] # "@"
    /\ s[Len(s)] # "@"

----------------------------------------------------------------------------
(* utils/password.rs                                                       *)

Salts == {"s1", "s2"}

\* the Argon2id digest of a password under a salt (collision-free)
Argon2(password, salt) == <<password, salt>>

\* hash_password: the PHC string "$argon2id$v=19$m=19456,t=2,p=1$salt$digest"
\* as its five '$'-separated fields
hash_password(password, salt) ==
    <<"argon2id", "v=19", "m=19456,t=2,p=1", salt, Argon2(password, salt)>>

\* PasswordHash::new: does the stored string parse as a PHC string
PasswordHashParses(hash) ==
    /\ Len(hash) = 5
    /\ hash[1] \in {"argon2id", "argon2i", "argon2d"}

\* verify_password that accepts every stored string that parses
verify_password_ParsesOnly(password, hash) ==
    [ok |-> PasswordHashParses(hash), value |-> PasswordHashParses(hash)]

\* verify_password: Err for a stored string that does not parse, else
\* Ok(digest comparison)
verify_password(password, hash) ==
    IF ~PasswordHashParses(hash)
    THEN [ok |-> FALSE, value |-> FALSE]
    ELSE [ok |-> TRUE, value |-> (Argon2(password, hash[4]) = hash[5])]

----------------------------------------------------------------------------
(* utils/jwt.rs                                                            *)

\* settings.jwt.secret, and a secret the service does not hold
Secret == "k-app"
OtherSecret == "k-other"

access_token_expiration_hours == 1
refresh_token_expiration_hours == 2

\* Validation::default(): validate_exp with a leeway of 60 seconds = 1 tick
Leeway == 1

\* Uuid::to_string and str::parse::<Uuid>
UuidToString(id) == <<"uuid", id>>

ParseUuid(s) ==
    IF Len(s) = 2 /\ s[1] = "uuid"
    THEN [ok |-> TRUE, value |-> s[2]]
    ELSE [ok |-> FALSE, value |-> 0]

\* the HS256 signature of a payload under a key (unforgeable)
Sign(payload, key) == [key |-> key, over |-> payload]

\* encode(&Header::default(), &claims, &key)
Encode(claims, key) == [fmt |-> "jwt", payload |-> claims, sig |-> Sign(claims, key)]

\* strings that are not three base64url segments
Garbage == [fmt |-> "garbage"]
EmptyToken == [fmt |-> "empty"]

generate_token_internal(user_id, email, token_type, expiration_hours, t) ==
    Encode([sub |-> UuidToString(user_id),
            exp |-> t + expiration_hours * HourTicks,
            iat |-> t,
            email |-> email,
            token_type |-> token_type], Secret)

generate_access_token(user_id, email, t) ==
    generate_token_internal(user_id, email, "Access", access_token_expiration_hours, t)

generate_refresh_token(user_id, email, t) ==
    generate_token_internal(user_id, email, "Refresh", refresh_token_expiration_hours, t)

NoClaims == [sub |-> <<>>, exp |-> 0, iat |-> 0, email |-> <<>>, token_type |-> "None"]

\* verify_token that decodes the payload without checking the signature
jwt_verify_token_Unsigned(token, t) ==
    IF token.fmt # "jwt"
    THEN [ok |-> FALSE, err |-> "InvalidToken", claims |-> NoClaims]
    ELSE IF token.payload.exp < t - Leeway
    THEN [ok |-> FALSE, err |-> "ExpiredSignature", claims |-> NoClaims]
    ELSE [ok |-> TRUE, err |-> "None", claims |-> token.payload]

\* JwtUtil::verify_token: decode checks the format, then the signature, then
\* exp against the clock (expired when exp < now - leeway); the claims are
\* returned only when all three pass
jwt_verify_token(token, t) ==
    IF token.fmt # "jwt"
    THEN [ok |-> FALSE, err |-> "InvalidToken", claims |-> NoClaims]
    ELSE IF token.sig # Sign(token.payload, Secret)
    THEN [ok |-> FALSE, err |-> "InvalidSignature", claims |-> NoClaims]
    ELSE IF token.payload.exp < t - Leeway
    THEN [ok |-> FALSE, err |-> "ExpiredSignature", claims |-> NoClaims]
    ELSE [ok |-> TRUE, err |-> "None", claims |-> token.payload]

----------------------------------------------------------------------------
(* The users table (entities::users::Model) and service results.           *)

\* a row of the users table; role and status are free text in the table
UserModel(id, display_name, username, email, password_hash, role, status) ==
    [id |-> id, display_name |-> display_name, username |-> username,
     email |-> email, password_hash |-> password_hash,
     role |-> role, status |-> status]

\* Err(AppError::<kind>(msg))
Err(kind, msg) ==
    [ok |-> FALSE, kind |-> kind, msg |-> msg, user |-> None,
     access_token |-> None, refresh_token |-> None]

\* Ok(AuthResponse { access_token, refresh_token, user })
OkAuth(user, access_token, refresh_token) ==
    [ok |-> TRUE, kind |-> "Ok", msg |-> "", user |-> Some(user),
     access_token |-> Some(access_token), refresh_token |-> Some(refresh_token)]

\* Ok(RefreshTokenResponse { access_token })
OkRefresh(access_token) ==
    [ok |-> TRUE, kind |-> "Ok", msg |-> "", user |-> None,
     access_token |-> Some(access_token), refresh_token |-> None]

\* Ok(user_model)
OkUser(user) ==
    [ok |-> TRUE, kind |-> "Ok", msg |-> "", user |-> Some(user),
     access_token |-> None, refresh_token |-> None]

\* the step of a call at which a collaborator fails, if any: a directory
\* read, the password hasher, a directory write, the token signer
Faults == {"none", "find", "hash", "insert", "sign"}

\* the collaborators each call uses
RegisterFaults == Faults
LoginFaults == {"none", "find", "sign"}
RefreshFaults == {"none", "find", "sign"}
VerifyFaults == {"none", "find"}

\* user_model.email.as_deref().unwrap_or("")
EmailOrEmpty(user) == IF is_some(user.email) THEN unwrap(user.email) ELSE StrEmpty

\* the tokens a result carries
TokensOf(res) ==
    {unwrap(o) : o \in {x \in {res.access_token, res.refresh_token} : is_some(x)}}

----------------------------------------------------------------------------
(* domain/auth/model.rs: the request bodies and their validation rules.    *)

RegisterRequest(display_name, username, email, password) ==
    [display_name |-> display_name, username |-> username,
     email |-> email, password |-> password]

LoginRequest(login, password) == [login |-> login, password |-> password]

RefreshTokenRequest(token) == [token |-> token]

ValidRegisterRequest(req) ==
    /\ is_some(req.display_name) => Len(unwrap(req.display_name)) >= 1
    /\ is_some(req.username) => Len(unwrap(req.username)) >= 3
    /\ is_some(req.email) => IsEmail(unwrap(req.email))
    /\ Len(req.password) >= 8

ValidLoginRequest(req) ==
    /\ Len(req.login) >= 1
    /\ Len(req.password) >= 1

ValidRefreshTokenRequest(req) == req.token.fmt # "empty"

----------------------------------------------------------------------------
(* domain/user/service.rs: UserService.  Each operator returns the result  *)
(* of the call and, where the call writes, the row it inserts.             *)

\* UserService::register; `table` is the users table the call reads
register(req, table, new_id, salt, fault, t) ==
    LET user == UserModel(new_id, req.display_name, req.username, req.email,
                          hash_password(req.password, salt), "student", "active")
        email == EmailOrEmpty(user)
    IN  IF ~ValidRegisterRequest(req)
        THEN [res |-> Err("Validation", "invalid request"), insert |-> None]
        ELSE IF is_none(req.username) /\ is_none(req.email)
        THEN [res |-> Err("Validation", "Either username or email must be provided"),
              insert |-> None]
        ELSE IF is_some(req.username) /\ fault = "find"
        THEN [res |-> Err("Internal", "db error"), insert |-> None]
        ELSE IF is_some(req.username)
                /\ \E u \in table : u.username = req.username
        THEN [res |-> Err("UsernameAlreadyExists", "Username already exists"),
              insert |-> None]
        ELSE IF is_some(req.email) /\ fault = "find"
        THEN [res |-> Err("Internal", "db error"), insert |-> None]
        ELSE IF is_some(req.email) /\ \E u \in table : u.email = req.email
        THEN [res |-> Err("AlreadyExists", "Email already exists"), insert |-> None]
        ELSE IF fault = "hash"
        THEN [res |-> Err("Internal", "Password hashing failed"), insert |-> None]
        ELSE IF fault = "insert"
        THEN [res |-> Err("Internal", "db error"), insert |-> None]
        ELSE IF fault = "sign"
        THEN [res |-> Err("Internal", "Failed to generate token"), insert |-> Some(user)]
        ELSE [res |-> OkAuth(user, generate_access_token(user.id, email, t),
                             generate_refresh_token(user.id, email, t)),
              insert |-> Some(user)]

\* the rows `.filter(username = login OR email = login)` selects
LoginMatches(table, login) ==
    {u \in table : u.username = Some(login) \/ u.email = Some(login)}

\* login telling an unknown identifier from a wrong password
login_Enumerating(req, found, fault, t) ==
    IF ~ValidLoginRequest(req) THEN Err("Validation", "invalid request")
    ELSE IF fault = "find" THEN Err("Internal", "db error")
    ELSE IF is_none(found) THEN Err("Unauthorized", "User not found")
    ELSE LET user_model == unwrap(found)
             checked == verify_password(req.password, user_model.password_hash)
             email == EmailOrEmpty(user_model)
         IN  IF ~checked.ok THEN Err("Internal", "Invalid password hash")
             ELSE IF ~checked.value THEN Err("Unauthorized", "Invalid credentials")
             ELSE IF user_model.status # "active"
             THEN Err("Forbidden", "Account is suspended or inactive")
             ELSE IF fault = "sign" THEN Err("Internal", "Failed to generate token")
             ELSE OkAuth(user_model,
                         generate_access_token(user_model.id, email, t),
                         generate_refresh_token(user_model.id, email, t))

\* login checking the account status before the password
login_StatusFirst(req, found, fault, t) ==
    IF ~ValidLoginRequest(req) THEN Err("Validation", "invalid request")
    ELSE IF fault = "find" THEN Err("Internal", "db error")
    ELSE IF is_none(found) THEN Err("Unauthorized", "Invalid credentials")
    ELSE LET user_model == unwrap(found)
             checked == verify_password(req.password, user_model.password_hash)
             email == EmailOrEmpty(user_model)
         IN  IF user_model.status # "active"
             THEN Err("Forbidden", "Account is suspended or inactive")
             ELSE IF ~checked.ok THEN Err("Internal", "Invalid password hash")
             ELSE IF ~checked.value THEN Err("Unauthorized", "Invalid credentials")
             ELSE IF fault = "sign" THEN Err("Internal", "Failed to generate token")
             ELSE OkAuth(user_model,
                         generate_access_token(user_model.id, email, t),
                         generate_refresh_token(user_model.id, email, t))

\* UserService::login; `found` is the row `.one()` returned, if any
login(req, found, fault, t) ==
    IF ~ValidLoginRequest(req)
    THEN Err("Validation", "invalid request")
    ELSE IF fault = "find"
    THEN Err("Internal", "db error")
    ELSE IF is_none(found)
    THEN Err("Unauthorized", "Invalid credentials")
    ELSE LET user_model == unwrap(found)
             checked == verify_password(req.password, user_model.password_hash)
             email == EmailOrEmpty(user_model)
         IN  IF ~checked.ok
             THEN Err("Internal", "Invalid password hash")
             ELSE IF ~checked.value
             THEN Err("Unauthorized", "Invalid credentials")
             ELSE IF user_model.status # "active"
             THEN Err("Forbidden", "Account is suspended or inactive")
             ELSE IF fault = "sign"
             THEN Err("Internal", "Failed to generate token")
             ELSE OkAuth(user_model,
                         generate_access_token(user_model.id, email, t),
                         generate_refresh_token(user_model.id, email, t))

\* Users::find_by_id(id).one(db)
find_by_id(table, id) ==
    IF \E u \in table : u.id = id
    THEN Some(CHOOSE u \in table : u.id = id)
    ELSE None

\* refresh_token without the check of the account status
refresh_token_AnyStatus(req, table, fault, t) ==
    LET verified == jwt_verify_token(req.token, t)
        user_id == ParseUuid(verified.claims.sub)
        found == find_by_id(table, user_id.value)
    IN  IF ~ValidRefreshTokenRequest(req) THEN Err("Validation", "invalid request")
        ELSE IF ~verified.ok THEN Err("Unauthorized", "Invalid refresh token")
        ELSE IF verified.claims.token_type # "Refresh"
        THEN Err("Unauthorized", "Invalid token type")
        ELSE IF ~user_id.ok THEN Err("Unauthorized", "Invalid user ID in token")
        ELSE IF fault = "find" THEN Err("Internal", "db error")
        ELSE IF is_none(found) THEN Err("Unauthorized", "User not found")
        ELSE IF fault = "sign" THEN Err("Internal", "Failed to generate token")
        ELSE OkRefresh(generate_access_token(user_id.value,
                                             EmailOrEmpty(unwrap(found)), t))

\* refresh_token rotating the refresh token: it returns a new pair
refresh_token_Rotating(req, table, fault, t) ==
    LET verified == jwt_verify_token(req.token, t)
        user_id == ParseUuid(verified.claims.sub)
        found == find_by_id(table, user_id.value)
    IN  IF ~ValidRefreshTokenRequest(req) THEN Err("Validation", "invalid request")
        ELSE IF ~verified.ok THEN Err("Unauthorized", "Invalid refresh token")
        ELSE IF verified.claims.token_type # "Refresh"
        THEN Err("Unauthorized", "Invalid token type")
        ELSE IF ~user_id.ok THEN Err("Unauthorized", "Invalid user ID in token")
        ELSE IF fault = "find" THEN Err("Internal", "db error")
        ELSE IF is_none(found) THEN Err("Unauthorized", "User not found")
        ELSE IF unwrap(found).status # "active" /\ unwrap(found).status # "pending"
        THEN Err("Forbidden", "Account is suspended or inactive")
        ELSE IF fault = "sign" THEN Err("Internal", "Failed to generate token")
        ELSE [ok |-> TRUE, kind |-> "Ok", msg |-> "", user |-> None,
              access_token |-> Some(generate_access_token(
                                        user_id.value, EmailOrEmpty(unwrap(found)), t)),
              refresh_token |-> Some(generate_refresh_token(
                                        user_id.value, EmailOrEmpty(unwrap(found)), t))]

\* UserService::refresh_token
refresh_token(req, table, fault, t) ==
    IF ~ValidRefreshTokenRequest(req)
    THEN Err("Validation", "invalid request")
    ELSE LET verified == jwt_verify_token(req.token, t)
             claims == verified.claims
             user_id == ParseUuid(claims.sub)
             found == find_by_id(table, user_id.value)
         IN  IF ~verified.ok
             THEN Err("Unauthorized", "Invalid refresh token")
             ELSE IF claims.token_type # "Refresh"
             THEN Err("Unauthorized", "Invalid token type")
             ELSE IF ~user_id.ok
             THEN Err("Unauthorized", "Invalid user ID in token")
             ELSE IF fault = "find"
             THEN Err("Internal", "db error")
             ELSE IF is_none(found)
             THEN Err("Unauthorized", "User not found")
             ELSE IF unwrap(found).status # "active" /\ unwrap(found).status # "pending"
             THEN Err("Forbidden", "Account is suspended or inactive")
             ELSE IF fault = "sign"
             THEN Err("Internal", "Failed to generate token")
             ELSE OkRefresh(generate_access_token(user_id.value,
                                                  EmailOrEmpty(unwrap(found)), t))

\* verify_token without the check of the token kind
verify_token_AnyKind(token, table, fault, t) ==
    LET verified == jwt_verify_token(token, t)
        user_id == ParseUuid(verified.claims.sub)
        found == find_by_id(table, user_id.value)
    IN  IF ~verified.ok THEN Err("Unauthorized", "Invalid access token")
        ELSE IF ~user_id.ok THEN Err("Unauthorized", "Invalid user ID in token")
        ELSE IF fault = "find" THEN Err("Internal", "db error")
        ELSE IF is_none(found) THEN Err("Unauthorized", "User not found")
        ELSE IF unwrap(found).status # "active" /\ unwrap(found).status # "pending"
        THEN Err("Forbidden", "Account is suspended or inactive")
        ELSE OkUser(unwrap(found))

\* verify_token without the check of the account status
verify_token_AnyStatus(token, table, fault, t) ==
    LET verified == jwt_verify_token(token, t)
        user_id == ParseUuid(verified.claims.sub)
        found == find_by_id(table, user_id.value)
    IN  IF ~verified.ok THEN Err("Unauthorized", "Invalid access token")
        ELSE IF verified.claims.token_type # "Access"
        THEN Err("Unauthorized", "Invalid token type")
        ELSE IF ~user_id.ok THEN Err("Unauthorized", "Invalid user ID in token")
        ELSE IF fault = "find" THEN Err("Internal", "db error")
        ELSE IF is_none(found) THEN Err("Unauthorized", "User not found")
        ELSE OkUser(unwrap(found))

\* UserService::verify_token
verify_token(token, table, fault, t) ==
    LET verified == jwt_verify_token(token, t)
        claims == verified.claims
        user_id == ParseUuid(claims.sub)
        found == find_by_id(table, user_id.value)
    IN  IF ~verified.ok
        THEN Err("Unauthorized", "Invalid access token")
        ELSE IF claims.token_type # "Access"
        THEN Err("Unauthorized", "Invalid token type")
        ELSE IF ~user_id.ok
        THEN Err("Unauthorized", "Invalid user ID in token")
        ELSE IF fault = "find"
        THEN Err("Internal", "db error")
        ELSE IF is_none(found)
        THEN Err("Unauthorized", "User not found")
        ELSE IF unwrap(found).status # "active" /\ unwrap(found).status # "pending"
        THEN Err("Forbidden", "Account is suspended or inactive")
        ELSE OkUser(unwrap(found))

----------------------------------------------------------------------------
(* middleware/auth.rs                                                      *)

\* the Authorization header: absent, bytes that are not text, or text cut
\* into segments, each a literal or a token string
NoHeader == [present |-> FALSE, text |-> FALSE, segs |-> <<>>]
NotTextHeader == [present |-> TRUE, text |-> FALSE, segs |-> <<>>]
TextHeader(segs) == [present |-> TRUE, text |-> TRUE, segs |-> segs]

Lit(s) == [kind |-> "lit", lit |-> s, tok |-> EmptyToken]
Tok(token) == [kind |-> "tok", lit |-> "", tok |-> token]

IsBearer(seg) == seg.kind = "lit" /\ seg.lit = "Bearer "

\* str::trim_start_matches("Bearer "): drops every leading "Bearer "
RECURSIVE trim_start_matches(_)
trim_start_matches(segs) ==
    IF segs # <<>> /\ IsBearer(Head(segs))
    THEN trim_start_matches(Tail(segs))
    ELSE segs

\* the token string a run of segments spells
TokenString(segs) ==
    IF segs = <<>> THEN EmptyToken
    ELSE IF Len(segs) = 1 /\ segs[1].kind = "tok" THEN segs[1].tok
    ELSE Garbage

\* extract_bearer_token
extract_bearer_token(header) ==
    IF ~header.present \/ ~header.text THEN None
    ELSE IF header.segs # <<>> /\ IsBearer(Head(header.segs))
    THEN Some(TokenString(trim_start_matches(header.segs)))
    ELSE None

\* the response of a request the middleware rejects
Rejected(error_type, message) ==
    [downstream |-> FALSE, identity |-> None, status |-> error_type, message |-> message]

\* next.run(request) with the user in the request extensions
Forwarded(user) ==
    [downstream |-> TRUE, identity |-> Some(user), status |-> "Ok", message |-> ""]

\* MapVerified failing open: an error that is neither Unauthorized nor
\* Forbidden lets the request through
MapVerified_FailOpen(res) ==
    IF res.ok THEN [downstream |-> TRUE, identity |-> res.user, status |-> "Ok", message |-> ""]
    ELSE IF res.kind = "Unauthorized"
    THEN [downstream |-> FALSE, identity |-> None, status |-> "Unauthorized",
          message |-> "Authentication failed"]
    ELSE IF res.kind = "Forbidden"
    THEN [downstream |-> FALSE, identity |-> None, status |-> "Forbidden",
          message |-> "Access forbidden"]
    ELSE [downstream |-> TRUE, identity |-> None, status |-> "Ok", message |-> ""]

\* the outcome auth_middleware maps a verify_token result to
MapVerified(res) ==
    IF res.ok THEN Forwarded(unwrap(res.user))
    ELSE IF res.kind = "Unauthorized" THEN Rejected("Unauthorized", "Authentication failed")
    ELSE IF res.kind = "Forbidden" THEN Rejected("Forbidden", "Access forbidden")
    ELSE Rejected("Internal", "Internal server error")

\* auth_middleware
auth_middleware(header, table, fault, t) ==
    LET token == extract_bearer_token(header)
    IN  IF is_none(token)
        THEN Rejected("Unauthorized", "Missing or invalid Authorization header")
        ELSE MapVerified(verify_token(unwrap(token), table, fault, t))

----------------------------------------------------------------------------
(* domain/response.rs and domain/error.rs: the body a client receives.  A  *)
(* body is the Response struct without its data; error is the optional    *)
(* detail string, serialized whenever it is Some.                          *)

\* Response::failure(message, error_type, error)
failure(message, error_type, error) ==
    [success |-> FALSE, message |-> message, status |-> error_type, error |-> error]

\* Response::success(data, message, status)
success(message, status) ==
    [success |-> TRUE, message |-> message, status |-> status, error |-> None]

\* impl fmt::Display for AppError: the name of the variant, then its message
to_string(err) ==
    <<CASE err.kind = "Validation" -> "Validation error: "
        [] err.kind = "InvalidEmail" -> "Invalid email: "
        [] err.kind = "InvalidPassword" -> "Invalid password: "
        [] err.kind = "MissingField" -> "Missing field: "
        [] err.kind = "UserValidationError" -> "User validation error: "
        [] err.kind = "NotFound" -> "Not found: "
        [] err.kind = "AlreadyExists" -> "Already exists: "
        [] err.kind = "UsernameAlreadyExists" -> "Username already exists: "
        [] err.kind = "Conflict" -> "Conflict: "
        [] err.kind = "Unauthorized" -> "Unauthorized: "
        [] err.kind = "Forbidden" -> "Forbidden: "
        [] err.kind = "DatabaseError" -> "Database error: "
        [] err.kind = "ConnectionError" -> "Connection error: "
        [] err.kind = "ExternalServiceError" -> "External service error: "
        [] OTHER -> "Internal error: ",
      err.msg>>

\* the match of to_response and to_response_created: the error type, the
\* message and the detail of each AppError variant
ErrorResponse(err) ==
    CASE err.kind = "Validation" ->
            failure("Validation failed", "Validation", Some(err.msg))
      [] err.kind = "InvalidEmail" ->
            failure("Invalid email format", "Validation", Some(err.msg))
      [] err.kind = "InvalidPassword" ->
            failure("Invalid password", "Validation", Some(err.msg))
      [] err.kind = "MissingField" ->
            failure("Missing required field", "Validation", Some(err.msg))
      [] err.kind = "UserValidationError" ->
            failure("User validation failed", "Validation", Some(err.msg))
      [] err.kind = "NotFound" ->
            failure("Resource not found", "NotFound", Some(err.msg))
      [] err.kind = "AlreadyExists" ->
            failure("Resource already exists", "Conflict", Some(err.msg))
      [] err.kind = "UsernameAlreadyExists" ->
            failure("Username already exists", "Conflict", Some(err.msg))
      [] err.kind = "Conflict" ->
            failure("Resource conflict", "Conflict", Some(err.msg))
      [] err.kind = "Unauthorized" ->
            failure("Unauthorized access", "Unauthorized", Some(err.msg))
      [] err.kind = "Forbidden" ->
            failure("Access forbidden", "Forbidden", Some(err.msg))
      [] err.kind = "DatabaseError" ->
            failure("Database operation failed", "Internal", Some(err.msg))
      [] err.kind = "ConnectionError" ->
            failure("Connection failed", "Internal", Some(err.msg))
      [] err.kind = "ExternalServiceError" ->
            failure("External service error", "Internal", Some(err.msg))
      [] OTHER ->
            failure("Internal server error", "Internal", Some(err.msg))

\* ToResponse::to_response
to_response(res, success_message) ==
    IF res.ok THEN success(success_message, "Ok") ELSE ErrorResponse(res)

\* ToResponse::to_response_created
to_response_created(res, success_message) ==
    IF res.ok THEN success(success_message, "Created") ELSE ErrorResponse(res)

\* ToResponse::to_response_no_content: three variants have an arm of
\* their own, every other variant takes the `_` arm
to_response_no_content(res, success_message) ==
    IF res.ok THEN success(success_message, "NoContent")
    ELSE CASE res.kind = "NotFound" ->
                failure("Resource not found", "NotFound", Some(res.msg))
           [] res.kind = "DatabaseError" ->
                failure("Database operation failed", "Internal", Some(res.msg))
           [] res.kind = "ConnectionError" ->
                failure("Connection failed", "Internal", Some(res.msg))
           [] OTHER ->
                failure("Operation failed", "Internal", Some(to_string(res)))

\* the body auth_middleware answers with when it does not run the route
auth_middleware_response(header, table, fault, t) ==
    LET token == extract_bearer_token(header)
    IN  IF is_none(token)
        THEN failure("Missing or invalid Authorization header", "Unauthorized",
                     Some("Authorization header must be in format: Bearer <token>"))
        ELSE LET res == verify_token(unwrap(token), table, fault, t)
             IN  IF res.ok THEN success("", "Ok")
                 ELSE IF res.kind = "Unauthorized"
                 THEN failure("Authentication failed", "Unauthorized", Some(res.msg))
                 ELSE IF res.kind = "Forbidden"
                 THEN failure("Access forbidden", "Forbidden", Some(res.msg))
                 ELSE failure("Internal server error", "Internal", Some(to_string(res)))

----------------------------------------------------------------------------
(* What a client can send.                                                 *)

DisplayNames == {Some(<<"A">>)}
Usernames == {None, Some(StrBob), Some(StrAdminEmail)}
Emails == {None, Some(StrAtB)}
RegisterPasswords == {PwGood, PwShort}
Logins == {StrAtB, StrBob, StrAdminEmail, StrEmpty}
LoginPasswords == {PwGood, PwAdmin, StrEmpty}
Statuses == {"active", "pending", "suspended"}

\* a signed token with its signature segment altered
FlipSignature(token) ==
    [token EXCEPT !.sig = [key |-> token.sig.key, over |-> token.sig.over, flipped |-> TRUE]]

\* a signed token whose payload was edited and whose signature was kept
SwapKind(token) ==
    [token EXCEPT !.payload.token_type =
        IF token.payload.token_type = "Access" THEN "Refresh" ELSE "Access"]

\* the same payload signed under a secret the service does not hold
Resign(token) == Encode(token.payload, OtherSecret)

\* the token strings a client can present: what the service signed, edits of
\* it, and strings that are not tokens
Presentable ==
    issued
    \cup {FlipSignature(tk) : tk \in issued}
    \cup {SwapKind(tk) : tk \in issued}
    \cup {Resign(tk) : tk \in issued}
    \cup {Garbage, EmptyToken}

Headers ==
    {NoHeader, NotTextHeader, TextHeader(<<Lit("Bearer ")>>)}
    \cup {TextHeader(<<Lit("Bearer "), Tok(tk)>>) : tk \in Presentable}
    \cup {TextHeader(<<Lit("Basic "), Tok(tk)>>) : tk \in issued}
    \cup {TextHeader(<<Tok(tk)>>) : tk \in issued}
    \cup {TextHeader(<<Lit("Bearer "), Lit("Bearer "), Tok(tk)>>) : tk \in issued}

----------------------------------------------------------------------------
(* The state machine.                                                      *)

\* seed_admin_user: the row AppState::new inserts into an empty table.  The
\* salts are interchangeable, so the seed is modelled with the first one.
SeedSalt == "s1"

SeededAdmin(salt) ==
    UserModel(1, Some(<<"A", "d", "m", "i", "n", " ", "U", "s", "e", "r">>),
              Some(StrAdmin), Some(StrAdminEmail),
              hash_password(PwAdmin, salt), "admin", "active")

NoRequest == [op |-> "none"]

Init ==
    /\ users = {SeededAdmin(SeedSalt)}
    /\ next_id = 2
    /\ now = 0
    /\ issued = {}
    /\ last = NoRequest
    /\ notes = {}
    /\ inflight = {}

\* the clock advances
Tick ==
    /\ last = NoRequest
    /\ now < MaxTime
    /\ now' = now + 1
    /\ last' = NoRequest
    /\ UNCHANGED <<users, next_id, issued, notes, inflight>>

\* the service signs the tokens of a result, within the budget of the model
Signs(res) ==
    /\ Cardinality(issued \cup TokensOf(res)) <= MaxTokens
    /\ issued' = issued \cup TokensOf(res)

\* POST /register
Register ==
    /\ last = NoRequest
    /\ \E display_name \in DisplayNames, username \in Usernames, email \in Emails,
       password \in RegisterPasswords, salt \in Salts, fault \in RegisterFaults :
        LET req == RegisterRequest(display_name, username, email, password)
            out == register(req, users, next_id, salt, fault, now)
        IN  /\ is_some(out.insert) => next_id <= MaxUsers
            /\ users' = users \cup {unwrap(o) : o \in {x \in {out.insert} : is_some(x)}}
            /\ next_id' = IF is_some(out.insert) THEN next_id + 1 ELSE next_id
            /\ Signs(out.res)
            /\ last' = [op |-> "register", req |-> req, fault |-> fault, res |-> out.res,
                        body |-> to_response_created(out.res, "User registered successfully")]
            /\ UNCHANGED <<now, notes, inflight>>

\* POST /login
Login ==
    /\ last = NoRequest
    /\ \E l \in Logins, password \in LoginPasswords, fault \in LoginFaults :
        \E found \in (IF LoginMatches(users, l) = {} THEN {None}
                      ELSE {Some(u) : u \in LoginMatches(users, l)}) :
            LET req == LoginRequest(l, password)
                res == login(req, found, fault, now)
            IN  /\ Signs(res)
                /\ last' = [op |-> "login", req |-> req, found |-> found,
                            fault |-> fault, res |-> res,
                            body |-> to_response(res, "Login successful")]
                /\ UNCHANGED <<users, next_id, now, notes, inflight>>

\* POST /refresh
Refresh ==
    /\ last = NoRequest
    /\ \E token \in Presentable, fault \in RefreshFaults :
        LET req == RefreshTokenRequest(token)
            res == refresh_token(req, users, fault, now)
        IN  /\ Signs(res)
            /\ last' = [op |-> "refresh", req |-> req, fault |-> fault, res |-> res,
                        body |-> to_response(res, "Token refreshed successfully")]
            /\ UNCHANGED <<users, next_id, now, notes, inflight>>

\* a request to a route behind auth_middleware
Protected ==
    /\ last = NoRequest
    /\ \E header \in Headers, fault \in VerifyFaults :
        /\ last' = [op |-> "protected", header |-> header, fault |-> fault,
                    out |-> auth_middleware(header, users, fault, now),
                    body |-> auth_middleware_response(header, users, fault, now)]
        /\ UNCHANGED <<users, next_id, now, issued, notes, inflight>>

\* str::starts_with("$argon2") on the password_hash of a payload
StartsWithArgon2(s) == Len(s) >= 1 /\ s[1] \in {"argon2id", "argon2i", "argon2d"}

\* a string that starts with "$argon2" and is no PHC string
CorruptHash == <<"argon2id">>

\* the password_hash values of the payloads an admin sends: the field left
\* out, an empty string, a string that already looks hashed
PayloadPasswords == {None, Some(StrEmpty), Some(CorruptHash)}

UpdateFaults == {"none", "hash"}

\* update_password_logic of make_crud_routes!("/users"): the password_hash the
\* row is saved with; a missing or empty field keeps the stored one, a string
\* that starts with "$argon2" is stored as given, anything else is hashed
update_password_logic(stored, payload_password, salt, fault) ==
    IF is_none(payload_password) \/ Len(unwrap(payload_password)) = 0
    THEN [ok |-> TRUE, value |-> stored]
    ELSE IF StartsWithArgon2(unwrap(payload_password))
    THEN [ok |-> TRUE, value |-> unwrap(payload_password)]
    ELSE IF fault = "hash"
    THEN [ok |-> FALSE, value |-> stored]
    ELSE [ok |-> TRUE, value |-> hash_password(unwrap(payload_password), salt)]

\* PUT /admin/users/{id}: update_item with a payload that names a status and,
\* possibly, a password_hash
AdminUpdateUser ==
    /\ last = NoRequest
    /\ \E u \in users, status \in Statuses, payload_password \in PayloadPasswords,
          salt \in Salts, fault \in UpdateFaults :
        LET hashed == update_password_logic(u.password_hash, payload_password, salt, fault)
            saved == [u EXCEPT !.status = status, !.password_hash = hashed.value]
        IN  /\ hashed.ok => saved # u
            /\ users' = IF hashed.ok THEN (users \ {u}) \cup {saved} ELSE users
            /\ last' = [op |-> "update_item", id |-> u.id, ok |-> hashed.ok]
            /\ UNCHANGED <<next_id, now, issued, notes, inflight>>

\* DELETE /admin/users/{id}: delete_item
AdminDeleteUser ==
    /\ last = NoRequest
    /\ \E u \in users :
        /\ users' = users \ {u}
        /\ last' = [op |-> "delete_item", id |-> u.id]
        /\ UNCHANGED <<next_id, now, issued, notes, inflight>>

\* the response of the last request has been delivered
Respond ==
    /\ last # NoRequest
    /\ last' = NoRequest
    /\ UNCHANGED <<users, next_id, now, issued, notes, inflight>>

Next ==
    \/ Respond
    \/ Tick
    \/ Register
    \/ Login
    \/ Refresh
    \/ Protected
    \/ AdminUpdateUser
    \/ AdminDeleteUser

Spec == Init /\ [][Next]_vars

----------------------------------------------------------------------------
(* domain/auth/handler.rs: the register handler that auth_routes mounts at  *)
(* POST /auth/register.  It takes the role from the request body and hands *)
(* it to UserService::create_user_with_password; the account is built by   *)
(* User::new.  Role and status are the Debug names of the enum variants.   *)

HandlerRoles == {None, Some("Student"), Some("Teacher"), Some("Admin"), Some("root")}
HandlerEmails == {StrAtB, StrAdminEmail}
HandlerFaults == {"none", "hash", "insert", "sign"}

\* the body the handler reads: req.display_name, req.email, req.password, req.role
HandlerRegisterRequest(display_name, email, password, role) ==
    [display_name |-> display_name, email |-> email, password |-> password, role |-> role]

\* let role = req.role.as_deref().unwrap_or("Student"); match role { ... }
ParseRole(role) ==
    LET name == IF is_some(role) THEN unwrap(role) ELSE "Student"
    IN  IF name \in {"Student", "Teacher", "Admin"} THEN name ELSE "Student"

\* User::new: a fresh id, the role given, status Pending
User_new(id, display_name, username, email, password_hash, role) ==
    UserModel(id, display_name, username, email, password_hash, role, "Pending")

\* UserService::create_user_with_password: build the account and insert it;
\* an identifier already in use, or a failing insert, is an error
create_user_with_password(display_name, email, password_hash, role, table, new_id, fault) ==
    IF fault = "insert" \/ \E u \in table : u.email = Some(email)
    THEN [ok |-> FALSE, user |-> None]
    ELSE [ok |-> TRUE,
          user |-> Some(User_new(new_id, Some(display_name), None, Some(email),
                                 password_hash, role))]

\* JwtUtil::generate_token(user.id, &user.email): the one token of this handler
generate_token(user_id, email, t) ==
    generate_token_internal(user_id, email, "Access", access_token_expiration_hours, t)

HandlerResponse(status, user, token) ==
    [ok |-> status = "Created", kind |-> status, user |-> user,
     access_token |-> token, refresh_token |-> None]

\* pub async fn register(State(state), Json(req)) -> UseCaseResponse<AuthResponse>
handler_register(req, table, new_id, salt, fault, t) ==
    IF fault = "hash"
    THEN [res |-> HandlerResponse("Internal", None, None), insert |-> None]
    ELSE
    LET password_hash == hash_password(req.password, salt)
        role == ParseRole(req.role)
        created == create_user_with_password(req.display_name, req.email,
                                             password_hash, role, table, new_id, fault)
    IN  IF ~created.ok
        THEN [res |-> HandlerResponse("Conflict", None, None), insert |-> None]
        ELSE IF fault = "sign"
        THEN [res |-> HandlerResponse("Internal", None, None), insert |-> created.user]
        ELSE [res |-> HandlerResponse("Created", created.user,
                        Some(generate_token(unwrap(created.user).id, req.email, t))),
              insert |-> created.user]

InitHandler ==
    /\ users = {}
    /\ next_id = 1
    /\ now = 0
    /\ issued = {}
    /\ last = NoRequest
    /\ notes = {}
    /\ inflight = {}

\* POST /auth/register
HandlerRegister ==
    /\ last = NoRequest
    /\ \E email \in HandlerEmails, password \in RegisterPasswords, role \in HandlerRoles,
          salt \in Salts, fault \in HandlerFaults :
        LET req == HandlerRegisterRequest(<<"A">>, email, password, role)
            out == handler_register(req, users, next_id, salt, fault, now)
        IN  /\ is_some(out.insert) => next_id <= MaxUsers
            /\ users' = users \cup {unwrap(o) : o \in {x \in {out.insert} : is_some(x)}}
            /\ next_id' = IF is_some(out.insert) THEN next_id + 1 ELSE next_id
            /\ Signs(out.res)
            /\ last' = [op |-> "handler_register", req |-> req, fault |-> fault,
                        res |-> out.res]
            /\ UNCHANGED <<now, notes, inflight>>

NextHandler ==
    \/ Respond
    \/ Tick
    \/ HandlerRegister

SpecHandler == InitHandler /\ [][NextHandler]_vars

----------------------------------------------------------------------------
(* utils/password.rs on its own: hash a plaintext, then verify a candidate  *)
(* against the string that came back.                                      *)

Plaintexts == {PwGood, PwShort, PwAdmin, StrEmpty, StrAtB, StrBob, StrAdminEmail, StrAdmin}

\* hash_password(password) with the salt SaltString::generate drew
HashPassword ==
    /\ last = NoRequest
    /\ \E password \in Plaintexts, salt \in Salts :
        last' = [op |-> "hash_password", password |-> password, salt |-> salt,
                 hash |-> hash_password(password, salt)]
    /\ UNCHANGED <<users, next_id, now, issued, notes, inflight>>

\* verify_password(candidate, hash) for the hash just produced
VerifyPassword ==
    /\ last.op = "hash_password"
    /\ \E candidate \in Plaintexts :
        last' = [op |-> "verify_password", password |-> last.password,
                 hash |-> last.hash, candidate |-> candidate,
                 result |-> verify_password(candidate, last.hash)]
    /\ UNCHANGED <<users, next_id, now, issued, notes, inflight>>

NextHasher ==
    \/ HashPassword
    \/ VerifyPassword
    \/ Respond

SpecHasher == InitHandler /\ [][NextHasher]_vars

----------------------------------------------------------------------------
(* authorization.rs and middleware/rbac.rs: decisions over the identity    *)
(* attached to a request.  Role is the enum Student | Teacher | Admin.     *)

Roles == {"Student", "Teacher", "Admin"}

\* ids of callers and owners
MaxId == 3
Ids == 1..MaxId

\* tests::create_test_user(id, role)
create_test_user(id, role) ==
    UserModel(id, Some(<<"T">>), Some(<<"t">>), Some(StrAtB), <<"h">>, role, "Active")

Callers == {create_test_user(id, role) : id \in Ids, role \in Roles}

\* can_access_resource granting every Teacher what it grants an Admin
can_access_resource_TeacherToo(authenticated_user, owner_id) ==
    authenticated_user.role \in {"Teacher", "Admin"} \/ authenticated_user.id = owner_id

\* can_access_resource(authenticated_user, resource), resource.owner_id() = owner_id
can_access_resource(authenticated_user, owner_id) ==
    authenticated_user.role = "Admin" \/ authenticated_user.id = owner_id

\* get_ownership_filter that filters Students only
get_ownership_filter_StudentsOnly(authenticated_user) ==
    IF authenticated_user.role = "Student" THEN Some(authenticated_user.id) ELSE None

\* get_ownership_filter(authenticated_user)
get_ownership_filter(authenticated_user) ==
    IF authenticated_user.role = "Admin" THEN None ELSE Some(authenticated_user.id)

is_admin(user) == user.role = "Admin"

\* authorization::require_admin: Ok(()) or Err(message)
authz_require_admin(user) ==
    IF is_admin(user) THEN [ok |-> TRUE, err |-> ""]
    ELSE [ok |-> FALSE, err |-> "Admin access required"]

\* require_role letting a request without an identity through
require_role_FailOpen(allowed_roles, extension) ==
    IF is_none(extension)
    THEN [downstream |-> TRUE, identity |-> None, status |-> "Ok", message |-> ""]
    ELSE IF unwrap(extension).role \notin allowed_roles
    THEN Rejected("Forbidden", "Insufficient permissions")
    ELSE Forwarded(unwrap(extension))

\* rbac::require_role(allowed_roles); `extension` is
\* request.extensions().get::<User>()
require_role(allowed_roles, extension) ==
    IF is_none(extension)
    THEN Rejected("Unauthorized", "Authentication required")
    ELSE IF unwrap(extension).role \notin allowed_roles
    THEN Rejected("Forbidden", "Insufficient permissions")
    ELSE Forwarded(unwrap(extension))

\* rbac::require_admin
rbac_require_admin(extension) ==
    IF is_none(extension)
    THEN Rejected("Unauthorized", "Authentication required")
    ELSE IF unwrap(extension).role # "Admin"
    THEN Rejected("Forbidden", "Admin access required")
    ELSE Forwarded(unwrap(extension))

\* rbac::require_teacher_or_admin
require_teacher_or_admin(extension) ==
    IF is_none(extension)
    THEN Rejected("Unauthorized", "Authentication required")
    ELSE IF unwrap(extension).role # "Teacher" /\ unwrap(extension).role # "Admin"
    THEN Rejected("Forbidden", "Insufficient permissions")
    ELSE Forwarded(unwrap(extension))

Extensions == {None} \cup {Some(user) : user \in Callers}

\* the role lists a route can be registered with
AllowedRoleLists == SUBSET Roles \ {{}}

CanAccessResource ==
    /\ last = NoRequest
    /\ \E user \in Callers, owner_id \in Ids :
        last' = [op |-> "can_access_resource", user |-> user, owner_id |-> owner_id,
                 out |-> can_access_resource(user, owner_id)]
    /\ UNCHANGED <<users, next_id, now, issued, notes, inflight>>

GetOwnershipFilter ==
    /\ last = NoRequest
    /\ \E user \in Callers :
        last' = [op |-> "get_ownership_filter", user |-> user,
                 out |-> get_ownership_filter(user)]
    /\ UNCHANGED <<users, next_id, now, issued, notes, inflight>>

AuthzRequireAdmin ==
    /\ last = NoRequest
    /\ \E user \in Callers :
        last' = [op |-> "authz_require_admin", user |-> user,
                 out |-> authz_require_admin(user)]
    /\ UNCHANGED <<users, next_id, now, issued, notes, inflight>>

RequireRole ==
    /\ last = NoRequest
    /\ \E allowed_roles \in AllowedRoleLists, extension \in Extensions :
        last' = [op |-> "require_role", allowed |-> allowed_roles,
                 extension |-> extension,
                 out |-> require_role(allowed_roles, extension)]
    /\ UNCHANGED <<users, next_id, now, issued, notes, inflight>>

RequireAdmin ==
    /\ last = NoRequest
    /\ \E extension \in Extensions :
        last' = [op |-> "require_admin", allowed |-> {"Admin"},
                 extension |-> extension, out |-> rbac_require_admin(extension)]
    /\ UNCHANGED <<users, next_id, now, issued, notes, inflight>>

RequireTeacherOrAdmin ==
    /\ last = NoRequest
    /\ \E extension \in Extensions :
        last' = [op |-> "require_teacher_or_admin", allowed |-> {"Teacher", "Admin"},
                 extension |-> extension, out |-> require_teacher_or_admin(extension)]
    /\ UNCHANGED <<users, next_id, now, issued, notes, inflight>>

NextAuthz ==
    \/ CanAccessResource
    \/ GetOwnershipFilter
    \/ AuthzRequireAdmin
    \/ RequireRole
    \/ RequireAdmin
    \/ RequireTeacherOrAdmin
    \/ Respond

SpecAuthz == InitHandler /\ [][NextAuthz]_vars

----------------------------------------------------------------------------
(* crud-macros create_item on the users table, next to Register: the ways  *)
(* a row enters the table.                                                 *)

CreatePasswords == PayloadPasswords \cup {Some(PwGood)}

\* create_password_logic: the password_hash of the payload is hashed when
\* it is a non-empty string that does not start with "$argon2"
create_password_logic(payload_password, salt, fault) ==
    IF is_none(payload_password) \/ Len(unwrap(payload_password)) = 0
       \/ StartsWithArgon2(unwrap(payload_password))
    THEN [ok |-> TRUE, value |-> payload_password]
    ELSE IF fault = "hash" THEN [ok |-> FALSE, value |-> payload_password]
    ELSE [ok |-> TRUE, value |-> Some(hash_password(unwrap(payload_password), salt))]

\* create_item: inject the id, run create_password_logic, build the
\* ActiveModel from the JSON (password_hash is a required column), insert
create_item(username, email, payload_password, table, new_id, salt, fault) ==
    LET hashed == create_password_logic(payload_password, salt, fault)
    IN  IF ~hashed.ok \/ is_none(hashed.value) THEN [ok |-> FALSE, insert |-> None]
        ELSE IF \E u \in table : \/ (is_some(username) /\ u.username = username)
                                 \/ (is_some(email) /\ u.email = email)
        THEN [ok |-> FALSE, insert |-> None]
        ELSE [ok |-> TRUE,
              insert |-> Some(UserModel(new_id, Some(<<"A">>), username, email,
                                        unwrap(hashed.value), "student", "active"))]

\* POST /admin/users: create_item
AdminCreateUser ==
    /\ last = NoRequest
    /\ \E username \in Usernames, email \in Emails, payload_password \in CreatePasswords,
          salt \in Salts, fault \in UpdateFaults :
        LET out == create_item(username, email, payload_password, users, next_id, salt, fault)
        IN  /\ out.ok => next_id <= MaxUsers
            /\ users' = IF out.ok THEN users \cup {unwrap(out.insert)} ELSE users
            /\ next_id' = IF out.ok THEN next_id + 1 ELSE next_id
            /\ last' = [op |-> "create_item", username |-> username, email |-> email,
                        ok |-> out.ok]
            /\ UNCHANGED <<now, issued, notes, inflight>>

NextDirectory ==
    \/ Register
    \/ AdminCreateUser
    \/ AdminUpdateUser
    \/ AdminDeleteUser
    \/ Respond

SpecDirectory == Init /\ [][NextDirectory]_vars

----------------------------------------------------------------------------
(* UserService::register as the two steps other calls can interleave with: *)
(* the lookups and the hashing, then the insert and the signing.  The      *)
(* users table rejects an insert whose username or email is already held.  *)

\* register calls that may be between their lookups and their insert
MaxCalls == 2
Calls == 1..MaxCalls

CheckFaults == {"none", "find", "hash"}
InsertFaults == {"none", "insert", "sign"}

\* the unique indexes of the users table refuse the row of this request
UniqueViolation(table, req) ==
    \E u \in table : \/ (is_some(req.username) /\ u.username = req.username)
                     \/ (is_some(req.email) /\ u.email = req.email)

\* register from `active_model.insert(&self.db)` on: a DbErr of the insert,
\* the unique violation included, is mapped to AppError::Internal
register_insert(req, table, new_id, salt, fault, t) ==
    IF fault = "insert" \/ UniqueViolation(table, req)
    THEN [res |-> Err("Internal", "db error"), insert |-> None]
    ELSE register(req, table, new_id, salt, fault, t)

\* a register call runs up to its insert: a failure is answered at once, a
\* call that passed the lookups and hashed the password is in flight
RegisterCheck ==
    /\ last = NoRequest
    /\ \E call \in Calls \ {c.call : c \in inflight},
          display_name \in DisplayNames, username \in Usernames, email \in Emails,
          password \in RegisterPasswords, salt \in Salts, fault \in CheckFaults :
        LET req == RegisterRequest(display_name, username, email, password)
            out == register(req, users, next_id, salt, fault, now)
        IN  /\ inflight' = IF out.res.ok
                           THEN inflight \cup {[call |-> call, req |-> req, salt |-> salt]}
                           ELSE inflight
            /\ last' = IF out.res.ok THEN NoRequest
                       ELSE [op |-> "register_check", call |-> call, req |-> req,
                             fault |-> fault, res |-> out.res]
    /\ UNCHANGED <<users, next_id, now, issued, notes>>

\* a call in flight inserts its row and signs its tokens
RegisterInsert ==
    /\ last = NoRequest
    /\ \E c \in inflight, fault \in InsertFaults :
        LET out == register_insert(c.req, users, next_id, c.salt, fault, now)
        IN  /\ is_some(out.insert) => next_id <= MaxUsers
            /\ users' = users \cup {unwrap(o) : o \in {x \in {out.insert} : is_some(x)}}
            /\ next_id' = IF is_some(out.insert) THEN next_id + 1 ELSE next_id
            /\ Signs(out.res)
            /\ inflight' = inflight \ {c}
            /\ last' = [op |-> "register_insert", call |-> c.call, req |-> c.req,
                        fault |-> fault, violation |-> UniqueViolation(users, c.req),
                        res |-> out.res]
    /\ UNCHANGED <<now, notes>>

NextConcurrent ==
    \/ RegisterCheck
    \/ RegisterInsert
    \/ Respond

SpecConcurrent == Init /\ [][NextConcurrent]_vars

----------------------------------------------------------------------------
(* domain/user/mod.rs and domain/user/handler.rs: the routes nested at     *)
(* /users behind auth_middleware.  The caller is the identity the guard    *)
(* attached; the handlers take State, Path and Json only.                  *)

\* the accounts of the table the user routes run against
RouteUsers ==
    {create_test_user(1, "Admin"), create_test_user(2, "Student"),
     create_test_user(3, "Teacher")}

\* UpdateUserRequest.role and .status, Option<Role> and Option<UserStatus>
UpdateRoles == {None, Some("Admin"), Some("Student")}
UpdateStatuses == {None, Some("Suspended")}

\* what a route handler answers: a status and the data of the body, if any
RouteOut(status, data) == [status |-> status, data |-> data]

\* the row with this id, if the table holds one
FindById(table, id) ==
    IF \E u \in table : u.id = id
    THEN Some(CHOOSE u \in table : u.id = id)
    ELSE None

\* UserService::get_user_by_id
get_user_by_id(table, id) ==
    LET row == FindById(table, id)
    IN  IF is_none(row) THEN [ok |-> FALSE, kind |-> "NotFound", user |-> None]
        ELSE [ok |-> TRUE, kind |-> "Ok", user |-> row]

\* UserService::update_user(UpdateUserInput): the fields given replace the
\* stored ones, then UserRepository::update writes the row
update_user(table, id, role, status) ==
    LET found == get_user_by_id(table, id)
    IN  IF ~found.ok THEN found
        ELSE LET row == unwrap(found.user)
                 saved == [row EXCEPT
                             !.role = IF is_some(role) THEN unwrap(role) ELSE @,
                             !.status = IF is_some(status) THEN unwrap(status) ELSE @]
             IN  [ok |-> TRUE, kind |-> "Ok", user |-> Some(saved)]

\* UserService::delete_user, over UserRepository::delete
delete_user(table, id) ==
    LET found == get_user_by_id(table, id)
    IN  IF ~found.ok THEN found ELSE [ok |-> TRUE, kind |-> "Ok", user |-> None]

\* handler::get_user: GET /users/{id}
handler_get_user(table, id) ==
    LET res == get_user_by_id(table, id)
    IN  RouteOut(res.kind, res.user)

\* handler::update_user: PUT /users/{id}
handler_update_user(table, id, role, status) ==
    LET res == update_user(table, id, role, status)
    IN  RouteOut(res.kind, res.user)

\* handler::delete_user: DELETE /users/{id}
handler_delete_user(table, id) ==
    LET res == delete_user(table, id)
    IN  RouteOut(IF res.ok THEN "NoContent" ELSE res.kind, None)

InitRoutes ==
    /\ users = RouteUsers
    /\ next_id = 1
    /\ now = 0
    /\ issued = {}
    /\ last = NoRequest
    /\ notes = {}
    /\ inflight = {}

\* GET /users/{id} by an authenticated caller
GetUser ==
    /\ last = NoRequest
    /\ \E caller \in users, id \in Ids :
        last' = [op |-> "get_user", caller |-> caller, id |-> id,
                 before |-> FindById(users, id),
                 out |-> handler_get_user(users, id)]
    /\ UNCHANGED <<users, next_id, now, issued, notes, inflight>>

\* PUT /users/{id} by an authenticated caller
UpdateUser ==
    /\ last = NoRequest
    /\ \E caller \in users, id \in Ids, role \in UpdateRoles, status \in UpdateStatuses :
        LET out == handler_update_user(users, id, role, status)
        IN  /\ users' = IF out.status = "Ok"
                        THEN {u \in users : u.id # id} \cup {unwrap(out.data)}
                        ELSE users
            /\ last' = [op |-> "update_user", caller |-> caller, id |-> id,
                        before |-> FindById(users, id), out |-> out]
    /\ UNCHANGED <<next_id, now, issued, notes, inflight>>

\* DELETE /users/{id} by an authenticated caller
DeleteUser ==
    /\ last = NoRequest
    /\ \E caller \in users, id \in Ids :
        LET out == handler_delete_user(users, id)
        IN  /\ users' = IF out.status = "NoContent"
                        THEN {u \in users : u.id # id}
                        ELSE users
            /\ last' = [op |-> "delete_user", caller |-> caller, id |-> id,
                        before |-> FindById(users, id), out |-> out]
    /\ UNCHANGED <<next_id, now, issued, notes, inflight>>

NextUserRoutes ==
    \/ GetUser
    \/ UpdateUser
    \/ DeleteUser
    \/ Respond

SpecUserRoutes == InitRoutes /\ [][NextUserRoutes]_vars

----------------------------------------------------------------------------
(* domain/note: the routes nested at /notes behind auth_middleware, over   *)
(* the service that crud_service! generates.  A note is owned by user_id.  *)

\* notes one behaviour creates
MaxNotes == 2

Titles == {"t1", "t2"}
Contents == {"c1"}
UpdateTitles == {None, Some("t2")}
UpdateContents == {None, Some("c2")}

\* Note::new(user_id, title, content) with the id Uuid::now_v7 drew
Note_new(id, user_id, title, content) ==
    [id |-> id, user_id |-> user_id, title |-> title, content |-> content]

\* crud_service! get_by_id
note_get_by_id(table, id) ==
    IF \E n \in table : n.id = id
    THEN [ok |-> TRUE, note |-> Some(CHOOSE n \in table : n.id = id)]
    ELSE [ok |-> FALSE, note |-> None]

\* crud_service! update: each field of the input that is Some replaces the
\* stored one, user_id included
note_update(table, id, user_id, title, content) ==
    LET found == note_get_by_id(table, id)
    IN  IF ~found.ok THEN found
        ELSE LET model == unwrap(found.note)
             IN  [ok |-> TRUE,
                  note |-> Some([model EXCEPT
                      !.user_id = IF is_some(user_id) THEN unwrap(user_id) ELSE @,
                      !.title = IF is_some(title) THEN unwrap(title) ELSE @,
                      !.content = IF is_some(content) THEN unwrap(content) ELSE @])]

\* what a note handler answers and the notes table it leaves
NoteOut(status, data, table) == [status |-> status, data |-> data, table |-> table]

\* handler::create_note: user_id is the id of the authenticated caller
handler_create_note(authenticated_user, table, new_id, title, content) ==
    LET note == Note_new(new_id, authenticated_user.id, title, content)
    IN  NoteOut("Created", Some(note), table \cup {note})

\* handler::get_note
handler_get_note(authenticated_user, table, id) ==
    LET found == note_get_by_id(table, id)
    IN  IF ~found.ok THEN NoteOut("NotFound", None, table)
        ELSE IF ~can_access_resource(authenticated_user, unwrap(found.note).user_id)
        THEN NoteOut("Forbidden", None, table)
        ELSE NoteOut("Ok", found.note, table)

\* update_note putting the caller in UpdateNoteInput.user_id
handler_update_note_TakesOwnership(authenticated_user, table, id, title, content) ==
    LET found == note_get_by_id(table, id)
    IN  IF ~found.ok THEN NoteOut("NotFound", None, table)
        ELSE IF ~can_access_resource(authenticated_user, unwrap(found.note).user_id)
        THEN NoteOut("Forbidden", None, table)
        ELSE LET saved == note_update(table, id, Some(authenticated_user.id), title, content)
             IN  NoteOut("Ok", saved.note, {n \in table : n.id # id} \cup {unwrap(saved.note)})

\* handler::update_note: UpdateNoteInput { id, user_id: None, title, content }
handler_update_note(authenticated_user, table, id, title, content) ==
    LET found == note_get_by_id(table, id)
    IN  IF ~found.ok THEN NoteOut("NotFound", None, table)
        ELSE IF ~can_access_resource(authenticated_user, unwrap(found.note).user_id)
        THEN NoteOut("Forbidden", None, table)
        ELSE LET saved == note_update(table, id, None, title, content)
             IN  NoteOut("Ok", saved.note, {n \in table : n.id # id} \cup {unwrap(saved.note)})

\* delete_note without the can_access_resource check
handler_delete_note_Unchecked(authenticated_user, table, id) ==
    LET found == note_get_by_id(table, id)
    IN  IF ~found.ok THEN NoteOut("NotFound", None, table)
        ELSE NoteOut("NoContent", None, {n \in table : n.id # id})

\* handler::delete_note
handler_delete_note(authenticated_user, table, id) ==
    LET found == note_get_by_id(table, id)
    IN  IF ~found.ok THEN NoteOut("NotFound", None, table)
        ELSE IF ~can_access_resource(authenticated_user, unwrap(found.note).user_id)
        THEN NoteOut("Forbidden", None, table)
        ELSE NoteOut("NoContent", None, {n \in table : n.id # id})

NoteIds == 1..MaxNotes

\* POST /notes
CreateNote ==
    /\ last = NoRequest
    /\ next_id <= MaxNotes
    /\ \E caller \in users, title \in Titles, content \in Contents :
        LET out == handler_create_note(caller, notes, next_id, title, content)
        IN  /\ notes' = out.table
            /\ next_id' = next_id + 1
            /\ last' = [op |-> "create_note", caller |-> caller, id |-> next_id,
                        before |-> None, status |-> out.status, data |-> out.data]
    /\ UNCHANGED <<users, now, issued, inflight>>

\* GET /notes/{id}
GetNote ==
    /\ last = NoRequest
    /\ \E caller \in users, id \in NoteIds :
        LET out == handler_get_note(caller, notes, id)
        IN  /\ notes' = out.table
            /\ last' = [op |-> "get_note", caller |-> caller, id |-> id,
                        before |-> note_get_by_id(notes, id).note,
                        status |-> out.status, data |-> out.data]
    /\ UNCHANGED <<users, next_id, now, issued, inflight>>

\* PUT /notes/{id}
UpdateNote ==
    /\ last = NoRequest
    /\ \E caller \in users, id \in NoteIds, title \in UpdateTitles,
          content \in UpdateContents :
        LET out == handler_update_note(caller, notes, id, title, content)
        IN  /\ notes' = out.table
            /\ last' = [op |-> "update_note", caller |-> caller, id |-> id,
                        before |-> note_get_by_id(notes, id).note,
                        status |-> out.status, data |-> out.data]
    /\ UNCHANGED <<users, next_id, now, issued, inflight>>

\* DELETE /notes/{id}
DeleteNote ==
    /\ last = NoRequest
    /\ \E caller \in users, id \in NoteIds :
        LET out == handler_delete_note(caller, notes, id)
        IN  /\ notes' = out.table
            /\ last' = [op |-> "delete_note", caller |-> caller, id |-> id,
                        before |-> note_get_by_id(notes, id).note,
                        status |-> out.status, data |-> out.data]
    /\ UNCHANGED <<users, next_id, now, issued, inflight>>

NextNotes ==
    \/ CreateNote
    \/ GetNote
    \/ UpdateNote
    \/ DeleteNote
    \/ Respond

SpecNotes == InitRoutes /\ [][NextNotes]_vars

----------------------------------------------------------------------------
(* domain/error.rs on its own: each mapper applied to each AppError.       *)

AppErrorKinds ==
    {"Validation", "InvalidEmail", "InvalidPassword", "MissingField",
     "UserValidationError", "NotFound", "AlreadyExists", "UsernameAlreadyExists",
     "Conflict", "Unauthorized", "Forbidden", "DatabaseError", "ConnectionError",
     "ExternalServiceError", "Internal"}

ErrorMessages == {"m1", "m2", "unique"}

Mappers == {"to_response", "to_response_created", "to_response_no_content"}

\* Err(err) through one of the three mappers
MapError ==
    /\ last = NoRequest
    /\ \E kind \in AppErrorKinds, msg \in ErrorMessages, mapper \in Mappers :
        LET res == Err(kind, msg)
        IN  last' = [op |-> "map_error", mapper |-> mapper, err |-> res,
                     body |-> CASE mapper = "to_response" -> to_response(res, "ok")
                                [] mapper = "to_response_created" ->
                                        to_response_created(res, "ok")
                                [] OTHER -> to_response_no_content(res, "ok")]
    /\ UNCHANGED <<users, next_id, now, issued, notes, inflight>>

NextBoundary ==
    \/ MapError
    \/ Respond

SpecBoundary == InitHandler /\ [][NextBoundary]_vars

----------------------------------------------------------------------------
(* Properties.  `last` holds the request just served; the directory and    *)
(* the clock are still the ones the request saw.                           *)

\* the token string the guard took from the header of the last request
GuardToken == extract_bearer_token(last.header)

\* the last request went through auth_middleware with a token the service
\* signed, unaltered
GuardSawIssued ==
    /\ last.op = "protected"
    /\ is_some(GuardToken)
    /\ unwrap(GuardToken) \in issued

\* the last request was a refresh with a token the service signed, unaltered
RefreshSawIssued ==
    /\ last.op = "refresh"
    /\ last.req.token \in issued

\* the account a signed token names, if the directory holds it
SubjectOf(token) == {u \in users : UuidToString(u.id) = token.payload.sub}

Admitted(u) == u.status \in {"active", "pending"}

\* C1: on a route behind auth_middleware the downstream handler runs only if
\* verify_token succeeded for the token of the Authorization header, the
\* identity attached is the account verify_token returned, and on every
\* failure (no header, bad token, account missing or suspended, directory
\* error) the request is rejected and nothing is attached.
C1_GuardFailsClosed ==
    last.op = "protected" =>
        LET resolved == verify_token(unwrap(GuardToken), users, last.fault, now)
        IN  /\ last.out.downstream =>
                /\ is_some(GuardToken)
                /\ resolved.ok
                /\ last.out.identity = resolved.user
                /\ unwrap(last.out.identity) \in users
            /\ (is_none(GuardToken) \/ ~resolved.ok) =>
                /\ ~last.out.downstream
                /\ is_none(last.out.identity)
                /\ last.out.status \in {"Unauthorized", "Forbidden", "Internal"}

C1_Witness ==
    /\ last.op = "protected"
    /\ last.out.downstream
    /\ is_some(last.out.identity)

\* C2: a token is accepted only for the purpose of its kind.  An access token
\* the service issued verifies with kind Access and passes verify_token when
\* its account is present and not suspended; refresh_token with that token
\* fails with Unauthorized (wrong token type when the token still verifies)
\* and issues nothing; verify_token with an issued refresh token fails with
\* Unauthorized and returns no account.
C2_KindMatchesPurpose ==
    /\ RefreshSawIssued /\ last.req.token.payload.token_type = "Access" =>
        /\ ~last.res.ok
        /\ last.res.kind = "Unauthorized"
        /\ TokensOf(last.res) = {}
        /\ jwt_verify_token(last.req.token, now).ok => last.res.msg = "Invalid token type"
    /\ GuardSawIssued /\ unwrap(GuardToken).payload.token_type = "Refresh" =>
        /\ ~last.out.downstream
        /\ is_none(last.out.identity)
        /\ last.out.status = "Unauthorized"
    /\ GuardSawIssued /\ unwrap(GuardToken).payload.token_type = "Access"
       /\ jwt_verify_token(unwrap(GuardToken), now).ok =>
        /\ jwt_verify_token(unwrap(GuardToken), now).claims.token_type = "Access"
        /\ (last.fault = "none" /\ \E u \in SubjectOf(unwrap(GuardToken)) : Admitted(u))
            => last.out.downstream

C2_Witness ==
    /\ RefreshSawIssued
    /\ last.req.token.payload.token_type = "Access"
    /\ last.res.msg = "Invalid token type"

\* C4: verify returns claims only for a token string the service signed under
\* its own secret and that was not altered since.  A token with an altered
\* signature segment, an edited payload, a signature under another secret, or
\* a string that is no token fails as invalid, and a failing verify returns no
\* claims at all.
C4_OnlySignedTokensVerify ==
    \A token \in Presentable :
        LET verified == jwt_verify_token(token, now)
        IN  /\ verified.ok => token \in issued /\ verified.claims = token.payload
            /\ ~verified.ok => verified.claims = NoClaims
            /\ token \notin issued =>
                /\ ~verified.ok
                /\ verified.err \in {"InvalidToken", "InvalidSignature"}
                /\ last.op = "refresh" /\ last.req.token = token =>
                    ~last.res.ok /\ TokensOf(last.res) = {}
                /\ last.op = "protected" /\ GuardToken = Some(token) =>
                    ~last.out.downstream

C4_Witness ==
    /\ last.op = "protected"
    /\ \E token \in issued :
        /\ GuardToken = Some(FlipSignature(token))
        /\ jwt_verify_token(token, now).ok
        /\ last.out.status = "Unauthorized"

\* the password of a login request does not match the row found
WrongPassword ==
    /\ is_some(last.found)
    /\ verify_password(last.req.password, unwrap(last.found).password_hash).ok
    /\ ~verify_password(last.req.password, unwrap(last.found).password_hash).value

RightPassword ==
    /\ is_some(last.found)
    /\ verify_password(last.req.password, unwrap(last.found).password_hash).value

\* C5: login does not tell whether an identifier is registered.  A login whose
\* identifier matches no account and a login with a registered identifier and
\* a wrong password end in the same error, Unauthorized "Invalid credentials",
\* and neither issues a token.
C5_LoginDoesNotEnumerate ==
    (/\ last.op = "login"
     /\ ValidLoginRequest(last.req)
     /\ last.fault # "find"
     /\ is_none(last.found) \/ WrongPassword)
        => /\ last.res = Err("Unauthorized", "Invalid credentials")
           /\ TokensOf(last.res) = {}

C5_Witness ==
    /\ last.op = "login"
    /\ ValidLoginRequest(last.req)
    /\ last.fault = "none"
    /\ WrongPassword
    /\ last.res.kind = "Unauthorized"

\* C6: login for a suspended account never issues tokens: with the right
\* password it ends in Forbidden, with a wrong password in the generic
\* Unauthorized, so Forbidden is returned only for a right password.
C6_SuspendedLogin ==
    (/\ last.op = "login"
     /\ is_some(last.found)
     /\ unwrap(last.found).status = "suspended")
        => /\ ~last.res.ok
           /\ TokensOf(last.res) = {}
           /\ (ValidLoginRequest(last.req) /\ last.fault # "find" /\ RightPassword)
                => last.res.kind = "Forbidden"
           /\ (ValidLoginRequest(last.req) /\ last.fault # "find" /\ WrongPassword)
                => last.res = Err("Unauthorized", "Invalid credentials")
           /\ last.res.kind = "Forbidden" => RightPassword

C6_Witness ==
    /\ last.op = "login"
    /\ is_some(last.found)
    /\ unwrap(last.found).status = "suspended"
    /\ RightPassword
    /\ last.res.kind = "Forbidden"

\* C7: verify_token decides on the account as it is when the call runs.  With
\* an access token the service issued, still verifying, the call returns no
\* account when the account of the subject is gone or suspended: Unauthorized
\* for a missing account, Forbidden for a suspended one.
C7_ResolveSeesCurrentAccount ==
    (/\ GuardSawIssued
     /\ unwrap(GuardToken).payload.token_type = "Access"
     /\ jwt_verify_token(unwrap(GuardToken), now).ok
     /\ last.fault = "none")
        => /\ SubjectOf(unwrap(GuardToken)) = {} =>
                /\ ~last.out.downstream
                /\ is_none(last.out.identity)
                /\ last.out.status = "Unauthorized"
           /\ \A u \in SubjectOf(unwrap(GuardToken)) : u.status = "suspended" =>
                /\ ~last.out.downstream
                /\ is_none(last.out.identity)
                /\ last.out.status = "Forbidden"

C7_Witness ==
    /\ GuardSawIssued
    /\ unwrap(GuardToken).payload.token_type = "Access"
    /\ jwt_verify_token(unwrap(GuardToken), now).ok
    /\ \E u \in SubjectOf(unwrap(GuardToken)) : u.status = "suspended"
    /\ last.out.status = "Forbidden"

\* C8: refresh_token issues nothing for an account that is gone or suspended
\* when the call runs: with a refresh token the service issued, still
\* verifying, it ends in Unauthorized for a missing account and in Forbidden
\* for a suspended one, and returns no token.
C8_RefreshSeesCurrentAccount ==
    (/\ RefreshSawIssued
     /\ last.req.token.payload.token_type = "Refresh"
     /\ jwt_verify_token(last.req.token, now).ok
     /\ last.fault # "find")
        => /\ SubjectOf(last.req.token) = {} =>
                /\ last.res.kind = "Unauthorized"
                /\ TokensOf(last.res) = {}
           /\ \A u \in SubjectOf(last.req.token) : u.status = "suspended" =>
                /\ last.res.kind = "Forbidden"
                /\ TokensOf(last.res) = {}

C8_Witness ==
    /\ RefreshSawIssued
    /\ last.req.token.payload.token_type = "Refresh"
    /\ jwt_verify_token(last.req.token, now).ok
    /\ \E u \in SubjectOf(last.req.token) : u.status = "suspended"
    /\ last.res.kind = "Forbidden"

\* C9: a successful refresh returns one token, of kind Access, whose subject
\* is the subject of the refresh token presented; it returns no refresh
\* token, and the token presented still verifies and still refreshes.
C9_RefreshReturnsOneAccessToken ==
    (last.op = "refresh" /\ last.res.ok) =>
        /\ is_some(last.res.access_token)
        /\ is_none(last.res.refresh_token)
        /\ unwrap(last.res.access_token).payload.token_type = "Access"
        /\ unwrap(last.res.access_token).payload.sub = last.req.token.payload.sub
        /\ unwrap(last.res.access_token) \in issued
        /\ last.req.token \in issued
        /\ last.req.token.payload.token_type = "Refresh"
        /\ jwt_verify_token(last.req.token, now).ok
        /\ refresh_token(last.req, users, "none", now).ok

C9_Witness ==
    /\ last.op = "refresh"
    /\ last.res.ok
    /\ unwrap(last.res.access_token).payload.iat > last.req.token.payload.iat

\* C3: a token the service issued is refused once the clock is past its exp,
\* although its signature is valid: verify returns no claims, the guard lets
\* no request through with it and refresh_token issues nothing for it.
C3_ExpiredTokenRefused ==
    /\ \A token \in issued :
        now > token.payload.exp => ~jwt_verify_token(token, now).ok
    /\ (GuardSawIssued /\ now > unwrap(GuardToken).payload.exp) => ~last.out.downstream
    /\ (RefreshSawIssued /\ now > last.req.token.payload.exp) => ~last.res.ok

\* C10: every account the register handler creates has role Student and
\* status Active whatever the request carries, and a successful register
\* returns that account with an access token and a refresh token whose
\* subject is the id of the new account.
C10_RegisterCreatesActiveStudent ==
    /\ \A u \in users : u.role = "Student" /\ u.status = "Active"
    /\ (last.op = "handler_register" /\ last.res.ok) =>
        /\ unwrap(last.res.user) \in users
        /\ is_some(last.res.access_token)
        /\ is_some(last.res.refresh_token)
        /\ \A token \in TokensOf(last.res) :
            token.payload.sub = UuidToString(unwrap(last.res.user).id)

\* the login identifier is one of the identifiers of the account
HasIdentifier(u, l) == u.username = Some(l) \/ u.email = Some(l)

\* C11: once an account is registered, and while it is neither suspended nor
\* deleted, a login with one of its identifiers and its password succeeds
\* with a token pair for that account, and a login with that identifier and
\* any other password ends in Unauthorized and issues no token.
C11_RegisteredLoginSucceeds ==
    (last.op = "login" /\ ValidLoginRequest(last.req) /\ last.fault = "none") =>
        \A u \in users :
            (/\ u.role = "student"
             /\ HasIdentifier(u, last.req.login)
             /\ u.status # "suspended") =>
                LET checked == verify_password(last.req.password, u.password_hash)
                IN  /\ checked.value =>
                        /\ last.res.ok
                        /\ last.res.user = Some(u)
                        /\ is_some(last.res.access_token)
                        /\ is_some(last.res.refresh_token)
                        /\ \A token \in TokensOf(last.res) :
                            token.payload.sub = UuidToString(u.id)
                    /\ ~checked.value =>
                        /\ last.res.kind = "Unauthorized"
                        /\ TokensOf(last.res) = {}

\* the identifiers a registration request asks for
RequestedIdentifiers(req) ==
    {unwrap(o) : o \in {x \in {req.username, req.email} : is_some(x)}}

\* an account of the table already answers to one of them
IdentifierInUse(table, req) ==
    \E u \in table : \E l \in RequestedIdentifiers(req) : HasIdentifier(u, l)

\* C12: a well-formed registration that asks for an identifier an existing
\* account already answers to fails with the already-exists error, creates
\* no account, issues no token and leaves the table as it was.
C12_TakenIdentifierRefused ==
    [][(/\ last'.op = "register"
        /\ ValidRegisterRequest(last'.req)
        /\ last'.fault = "none"
        /\ IdentifierInUse(users, last'.req))
            => /\ ~last'.res.ok
               /\ last'.res.kind \in {"AlreadyExists", "UsernameAlreadyExists"}
               /\ TokensOf(last'.res) = {}
               /\ users' = users
               /\ issued' = issued]_vars

\* the row a login was served has a stored hash that is no PHC string
CorruptRecord ==
    /\ is_some(last.found)
    /\ ~PasswordHashParses(unwrap(last.found).password_hash)

\* C13: verify_password answers false, never an error, for every mismatch, a
\* malformed stored hash included; a login against an account whose stored
\* hash is corrupt ends like a login with a wrong password, in the generic
\* Unauthorized.
C13_CorruptHashIsMismatch ==
    /\ \A u \in users, password \in LoginPasswords :
        verify_password(password, u.password_hash).ok
    /\ (/\ last.op = "login"
        /\ ValidLoginRequest(last.req)
        /\ last.fault = "none"
        /\ CorruptRecord)
            => last.res = Err("Unauthorized", "Invalid credentials")

\* C14: verify_password(p, hash_password(p)) is true and
\* verify_password(p1, hash_password(p2)) is false for p1 # p2, whatever salt
\* the hash was made with; two hashes of one plaintext under different salts
\* are different strings and both verify it.
C14_HashVerifyRoundTrip ==
    /\ last.op = "verify_password" =>
        /\ last.result.ok
        /\ last.result.value <=> (last.candidate = last.password)
    /\ last.op = "hash_password" =>
        \A salt \in Salts \ {last.salt} :
            /\ hash_password(last.password, salt) # last.hash
            /\ verify_password(last.password, hash_password(last.password, salt)).value
            /\ verify_password(last.password, last.hash).value

C14_Witness ==
    /\ last.op = "verify_password"
    /\ last.candidate # last.password
    /\ ~last.result.value

\* C15: can_access_resource is true exactly when the caller is an Admin or
\* the caller's id is the owner's id: an Admin is granted whoever owns the
\* resource, an owner is granted whatever the role, and a Student or Teacher
\* who is not the owner is denied.
C15_CanAccessAdminOrOwner ==
    last.op = "can_access_resource" =>
        /\ last.user.role = "Admin" => last.out
        /\ last.user.id = last.owner_id => last.out
        /\ (last.user.role \in {"Student", "Teacher"} /\ last.user.id # last.owner_id)
            => ~last.out

C15_Witness ==
    /\ last.op = "can_access_resource"
    /\ last.user.role = "Teacher"
    /\ last.user.id # last.owner_id
    /\ ~last.out

\* C16: get_ownership_filter returns None exactly for an Admin and
\* Some(caller id) for every Student and Teacher, never another id.
C16_OwnershipFilter ==
    last.op = "get_ownership_filter" =>
        /\ is_none(last.out) <=> last.user.role = "Admin"
        /\ last.user.role \in {"Student", "Teacher"} => last.out = Some(last.user.id)
        /\ is_some(last.out) => unwrap(last.out) = last.user.id

C16_Witness ==
    /\ last.op = "get_ownership_filter"
    /\ last.user.role = "Teacher"
    /\ last.out = Some(last.user.id)

\* the documented order Student < Teacher < Admin
Rank(role) == CASE role = "Student" -> 1 [] role = "Teacher" -> 2 [] role = "Admin" -> 3

RoleGuards == {"require_role", "require_admin", "require_teacher_or_admin"}

\* the lowest role a guard admits
MinimumRank(allowed) == CHOOSE n \in 1..3 :
    /\ \E r \in allowed : Rank(r) = n
    /\ \A r \in allowed : Rank(r) >= n

\* C17 as stated: a role guard admits by the order Student < Teacher < Admin;
\* with m the minimum role of the route, downstream runs exactly when an
\* identity is attached and its role is not below m, so whoever ranks above
\* an admitted caller is admitted too.
C17_GuardAdmitsByRank ==
    last.op \in RoleGuards =>
        (last.out.downstream <=>
            /\ is_some(last.extension)
            /\ Rank(unwrap(last.extension).role) >= MinimumRank(last.allowed))

\* C17 as amended: a role guard admits by its list of roles; downstream runs
\* exactly when an identity is attached and its role is in the list; no
\* identity is rejected with Unauthorized and a role outside the list with
\* Forbidden, both before downstream; require_admin and
\* require_teacher_or_admin admit exactly the roles not below Admin and not
\* below Teacher.
C17_GuardAdmitsByList ==
    last.op \in RoleGuards =>
        /\ last.out.downstream <=>
            (is_some(last.extension) /\ unwrap(last.extension).role \in last.allowed)
        /\ last.out.downstream => last.out.identity = last.extension
        /\ is_none(last.extension) =>
            ~last.out.downstream /\ last.out.status = "Unauthorized"
        /\ (is_some(last.extension) /\ unwrap(last.extension).role \notin last.allowed) =>
            ~last.out.downstream /\ last.out.status = "Forbidden"
        /\ last.op \in {"require_admin", "require_teacher_or_admin"} =>
            (last.out.downstream <=>
                /\ is_some(last.extension)
                /\ Rank(unwrap(last.extension).role) >= MinimumRank(last.allowed))

C17_Witness ==
    /\ last.op = "require_role"
    /\ last.allowed = {"Student"}
    /\ is_some(last.extension)
    /\ unwrap(last.extension).role = "Admin"
    /\ last.out.status = "Forbidden"

\* the Authorization header has the form "Bearer <token>"
HasBearerForm(header) ==
    /\ header.present
    /\ header.text
    /\ header.segs # <<>>
    /\ IsBearer(Head(header.segs))

\* C18: a request whose Authorization header is absent, is not text or does
\* not start with "Bearer " is rejected with Unauthorized before any token is
\* verified and before any directory lookup; for a header of the form
\* "Bearer <token>" the token handed to verify_token is the header text
\* after the one "Bearer " prefix.
C18_BearerPrefixStrippedOnce ==
    last.op = "protected" =>
        /\ ~HasBearerForm(last.header) =>
            last.out = Rejected("Unauthorized", "Missing or invalid Authorization header")
        /\ HasBearerForm(last.header) =>
            LET token == TokenString(Tail(last.header.segs))
            IN  /\ GuardToken = Some(token)
                /\ last.out = MapVerified(verify_token(token, users, last.fault, now))

\* a flow that ended with Internal and handed out nothing
FailedInternal(res) ==
    /\ ~res.ok
    /\ res.kind = "Internal"
    /\ is_none(res.access_token)
    /\ is_none(res.refresh_token)

\* the outcome of a call in which a collaborator failed, next to the outcome
\* of the same call with no failure: a call that would have succeeded ends
\* with Internal, a call refused before the failing step is refused the same
FaultOutcome(res, clean) ==
    IF clean.ok THEN FailedInternal(res) ELSE res = clean \/ FailedInternal(res)

\* C19: in Register, Login, Refresh and the guard's token verification, a
\* failure of hashing, of signing or of a directory read or write ends the
\* flow with Internal: the call does not succeed, returns no token, and is
\* not reported as Unauthorized, Forbidden or AlreadyExists (Conflict).
C19_CollaboratorFailureIsInternal ==
    /\ (last.op = "login" /\ last.fault # "none") =>
        FaultOutcome(last.res, login(last.req, last.found, "none", now))
    /\ (last.op = "login" /\ last.fault = "none" /\ ValidLoginRequest(last.req)
        /\ is_some(last.found)
        /\ ~verify_password(last.req.password, unwrap(last.found).password_hash).ok) =>
        FailedInternal(last.res)
    /\ (last.op = "refresh" /\ last.fault # "none") =>
        FaultOutcome(last.res, refresh_token(last.req, users, "none", now))
    /\ (last.op = "protected" /\ last.fault # "none") =>
        LET clean == auth_middleware(last.header, users, "none", now)
        IN  /\ ~last.out.downstream
            /\ IF clean.downstream THEN last.out.status = "Internal"
               ELSE last.out = clean \/ last.out.status = "Internal"
    /\ (last.op = "register" /\ last.fault # "none") =>
        /\ ~last.res.ok
        /\ is_none(last.res.access_token) /\ is_none(last.res.refresh_token)
        /\ last.res.kind \in {"Internal", "Validation", "UsernameAlreadyExists", "AlreadyExists"}
        /\ last.fault # "sign" =>
            \A salt \in Salts :
                FaultOutcome(last.res,
                             register(last.req, users, next_id, salt, "none", now).res)
    /\ (last.op = "handler_register" /\ last.fault # "none") =>
        /\ ~last.res.ok
        /\ is_none(last.res.access_token)
        /\ last.fault # "sign" =>
            \A salt \in Salts :
                handler_register(last.req, users, next_id, salt, "none", now).res.ok
                    => FailedInternal(last.res)

\* C20: the body of a request that ended with Internal, from the guard or
\* from the boundary mapping, carries the generic message and no error
\* detail, so two different internal causes get the same body.
C20_InternalBodyIsGeneric ==
    (last.op \in {"register", "login", "refresh", "protected"}
     /\ last.body.status = "Internal") =>
        last.body = failure("Internal server error", "Internal", None)

\* a stored string that PasswordHasher.hash produced: the PHC string of the
\* digest of some plaintext under the salt the string carries
IsProducedByHasher(hash) ==
    /\ PasswordHashParses(hash)
    /\ Len(hash[5]) = 2
    /\ hash = hash_password(hash[5][1], hash[4])

\* C21: the stored password_hash of every account is a hash string that
\* hash_password produced, never a client-chosen string stored unhashed.
C21_StoredHashIsHashed ==
    \A u \in users : IsProducedByHasher(u.password_hash)

\* the closed set of role names a request may carry
RoleNames == {"Student", "Teacher", "Admin"}

\* C22: a request that carries a role outside {Student, Teacher, Admin} is
\* not accepted as if it had named a valid role: it creates no account and
\* returns no token.
C22_UnrecognizedRoleRefused ==
    (last.op = "handler_register"
     /\ is_some(last.req.role) /\ unwrap(last.req.role) \notin RoleNames) =>
        /\ ~last.res.ok
        /\ is_none(last.res.user)
        /\ is_none(last.res.access_token)

\* C23: on the user routes a caller who is not Admin reads, updates or
\* deletes only the account whose id is the caller's own; a request of a
\* non-Admin caller for another account returns none of that account and
\* leaves it as it was.
C23_NonAdminOwnAccountOnly ==
    (last.op \in {"get_user", "update_user", "delete_user"}
     /\ last.caller.role # "Admin"
     /\ last.id # last.caller.id
     /\ is_some(last.before)) =>
        /\ last.out.status = "Forbidden"
        /\ is_none(last.out.data)
        /\ FindById(users, last.id) = last.before

\* C24: every stored account has a username or an email; Register with
\* neither fails with Validation whatever would have failed later, creates
\* no account and issues no token.
C24_AccountHasIdentifier ==
    /\ \A u \in users : is_some(u.username) \/ is_some(u.email)
    /\ (last.op = "register" /\ is_none(last.req.username) /\ is_none(last.req.email)) =>
        /\ ~last.res.ok
        /\ last.res.kind = "Validation"
        /\ is_none(last.res.access_token) /\ is_none(last.res.refresh_token)

\* C25: when two Register calls for one identifier race, the table never
\* holds two accounts with that identifier, and the call whose insert the
\* table refuses fails with AlreadyExists, not with Internal.
C25_RaceLoserAlreadyExists ==
    /\ \A u1, u2 \in users :
        (u1 # u2) =>
            /\ is_some(u1.username) => u1.username # u2.username
            /\ is_some(u1.email) => u1.email # u2.email
    /\ (last.op = "register_insert" /\ last.fault = "none" /\ last.violation) =>
        /\ ~last.res.ok
        /\ last.res.kind \in {"AlreadyExists", "UsernameAlreadyExists"}

\* C26: a note's owner is the authenticated caller who created it, and no
\* step changes the user_id of a note that stays in the table.
C26_NoteOwnerFixed ==
    [][/\ \A n \in notes : \A m \in notes' : (n.id = m.id) => (m.user_id = n.user_id)
       /\ (last'.op = "create_note" /\ last'.status = "Created") =>
            \E n \in notes' \ notes :
                /\ n.id = last'.id
                /\ n.user_id = last'.caller.id
                /\ last'.data = Some(n)]_vars

\* an Admin updated a note of another caller and the note kept its owner
C26_Witness ==
    /\ last.op = "update_note"
    /\ last.status = "Ok"
    /\ last.caller.role = "Admin"
    /\ is_some(last.before)
    /\ unwrap(last.before).user_id # last.caller.id
    /\ unwrap(last.data).title # unwrap(last.before).title
    /\ unwrap(last.data).user_id = unwrap(last.before).user_id

\* C27: get_note, update_note and delete_note on an existing note answer a
\* caller who is neither Admin nor the owner with Forbidden, return none of
\* the note and leave it as it was; a note is updated or deleted only when
\* can_access_resource is true for the note fetched in the request.
C27_NoteForbiddenToOthers ==
    (last.op \in {"get_note", "update_note", "delete_note"} /\ is_some(last.before)) =>
        LET note == unwrap(last.before)
            allowed == last.caller.role = "Admin" \/ last.caller.id = note.user_id
        IN  /\ ~allowed =>
                /\ last.status = "Forbidden"
                /\ is_none(last.data)
                /\ note \in notes
            /\ (note \notin notes) => allowed

\* a Teacher asked to delete a Student's note, was refused, the note is there
C27_Witness ==
    /\ last.op = "delete_note"
    /\ is_some(last.before)
    /\ last.caller.role = "Teacher"
    /\ unwrap(last.before).user_id # last.caller.id
    /\ last.status = "Forbidden"
    /\ unwrap(last.before) \in notes

\* C28: Login, Refresh and the guard's token verification admit the same
\* account statuses: a login with the right password succeeds exactly when
\* a fresh access token of that account passes verify_token and a fresh
\* refresh token of it passes refresh_token.
C28_SameStatusRule ==
    (/\ last.op = "login"
     /\ ValidLoginRequest(last.req)
     /\ last.fault = "none"
     /\ RightPassword) =>
        LET user_model == unwrap(last.found)
            email == EmailOrEmpty(user_model)
            access == generate_access_token(user_model.id, email, now)
            refresh == generate_refresh_token(user_model.id, email, now)
        IN  /\ last.res.ok <=> verify_token(access, users, "none", now).ok
            /\ last.res.ok <=> refresh_token(RefreshTokenRequest(refresh), users, "none", now).ok

\* the login identifiers of an account
IdentifiersOf(u) ==
    {unwrap(o) : o \in {x \in {u.username, u.email} : is_some(x)}}

\* C29: a login identifier resolves to at most one account: no string is an
\* identifier (username or email) of two different accounts, so the lookup
\* of login by "username or email" has one answer.
C29_IdentifierResolvesOnce ==
    /\ \A u1, u2 \in users : (u1 # u2) => IdentifiersOf(u1) \cap IdentifiersOf(u2) = {}
    /\ \A l \in Logins : Cardinality(LoginMatches(users, l)) <= 1

\* the response status the boundary owes each error kind
StatusOfKind(kind) ==
    CASE kind \in {"Validation", "InvalidEmail", "InvalidPassword", "MissingField",
                   "UserValidationError"} -> "Validation"
      [] kind = "NotFound" -> "NotFound"
      [] kind \in {"AlreadyExists", "UsernameAlreadyExists", "Conflict"} -> "Conflict"
      [] kind = "Unauthorized" -> "Unauthorized"
      [] kind = "Forbidden" -> "Forbidden"
      [] OTHER -> "Internal"

\* C30: the status of an error response depends on the error kind only and
\* is the same in to_response, to_response_created and
\* to_response_no_content; only DatabaseError, ConnectionError,
\* ExternalServiceError and Internal are reported as Internal.
C30_StatusByKind ==
    last.op = "map_error" =>
        /\ ~last.body.success
        /\ last.body.status = StatusOfKind(last.err.kind)

====
